---- MODULE Spec2Model ----
(***************************************************************************)
(* Model of add_files_to_xcode.py: one run of the script that patches an   *)
(* Xcode project.pbxproj by four regex-located string insertions.          *)
(*                                                                         *)
(* Text is a sequence of pieces.  A piece denotes the characters lo..hi-1  *)
(* of a fixed literal (its kind k), so every offset and length below is a  *)
(* character offset exactly as Python computes it, and an insertion that   *)
(* lands inside a literal splits its piece in two.                         *)
(*                                                                         *)
(* uuid.uuid4() is modelled as an entropy source that never repeats a      *)
(* value (the n-th call of the run returns n); identifiers already in the  *)
(* descriptor are negative.                                                *)
(***************************************************************************)
EXTENDS Integers, Sequences, FiniteSets, TLC

VARIABLES pc, disk, orig, content, files_to_add, gen_i, uuids,
          file_refs, build_refs, hist, result, stdout, exit_status

vars == <<pc, disk, orig, content, files_to_add, gen_i, uuids,
          file_refs, build_refs, hist, result, stdout, exit_status>>

\* Longest filename list tried.
MaxFiles == 2

\* The filenames of the hardcoded list.
FileNames == {"Activity.swift", "ActivityMigration.swift"}

\* len(filename)
NameLen(fn) ==
    CASE fn = "Activity.swift" -> 14
      [] fn = "ActivityMigration.swift" -> 23
      [] OTHER -> 0

(***************************************************************************)
(* Literals and their lengths in characters.                               *)
(***************************************************************************)
Width(k, fn) ==
    CASE k = "Header"         -> 16    \* '// !$*UTF8*$!\n{\n'
      [] k = "NL"             -> 1     \* '\n'
      [] k = "Indent"         -> 2     \* '\t\t'
      [] k = "BeginBF"        -> 32    \* '/* Begin PBXBuildFile section */'
      [] k = "EndBF"          -> 30    \* '/* End PBXBuildFile section */'
      [] k = "BeginFR"        -> 36    \* '/* Begin PBXFileReference section */'
      [] k = "EndFR"          -> 34    \* '/* End PBXFileReference section */'
      [] k = "OldBuildFile"   -> 143   \* an existing PBXBuildFile record, no '\n'
      [] k = "OldFileRef"     -> 164   \* an existing PBXFileReference record, no '\n'
      [] k = "Id"             -> 24    \* 24 characters of [A-F0-9]
      [] k = "ModelsTag"      -> 17    \* ' /* Models */ = {'
      [] k = "SourcesTag"     -> 18    \* ' /* Sources */ = {'
      [] k = "GroupBody"      -> 23    \* '\n\t\t\tisa = PBXGroup;\n\t\t\t'
      [] k = "PhaseBody"      -> 68    \* isa and buildActionMask lines
      [] k = "ChildrenOpen"   -> 12    \* 'children = ('
      [] k = "FilesOpen"      -> 9     \* 'files = ('
      [] k = "OldChild"       -> 56    \* '\n\t\t\t\t<id> /* WigiAIApp.swift */,\n\t\t\t'
      [] k = "OldPhaseFile"   -> 67    \* the same, ' in Sources'
      [] k = "ListClose"      -> 2     \* ');'
      [] k = "GroupTail"      -> 51    \* path, sourceTree lines and '\t\t};\n'
      [] k = "PhaseTail"      -> 49    \* runOnly... line and '\t\t};\n'
      [] k = "FileRef"        -> 135 + 2 * NameLen(fn)
      [] k = "Child"          -> 37 + NameLen(fn)
      [] k = "BuildPhaseFile" -> 48 + NameLen(fn)
      [] k = "BuildFile"      -> 114 + 2 * NameLen(fn)
      [] OTHER                -> 1

\* Offsets of '}' inside a literal.
RBraceAt(k, fn) ==
    CASE k \in {"FileRef", "BuildFile", "GroupTail", "PhaseTail"} -> {Width(k, fn) - 3}
      [] k \in {"OldBuildFile", "OldFileRef"} -> {Width(k, fn) - 2}
      [] OTHER -> {}

\* Offsets of ')' inside a literal.
RParenAt(k, fn) == IF k = "ListClose" THEN {0} ELSE {}

Piece(k, ref, bld, fn) ==
    [k |-> k, ref |-> ref, bld |-> bld, fn |-> fn, lo |-> 0, hi |-> Width(k, fn)]

Lit(k) == Piece(k, 0, 0, "")

IdPiece(n) == Piece("Id", n, 0, "")

PLen(p) == p.hi - p.lo

Whole(p) == p.lo = 0 /\ p.hi = Width(p.k, p.fn)

IsLit(p, k) == p.k = k /\ Whole(p)

HasRBrace(p) == \E o \in RBraceAt(p.k, p.fn) : p.lo <= o /\ o < p.hi

HasRParen(p) == \E o \in RParenAt(p.k, p.fn) : p.lo <= o /\ o < p.hi

RECURSIVE TextLen(_)
\* len(text)
TextLen(t) == IF t = <<>> THEN 0 ELSE PLen(Head(t)) + TextLen(Tail(t))

\* Character offset at which piece i starts (i = Len(t)+1: the end of the text).
Off(t, i) == TextLen(SubSeq(t, 1, i - 1))

SetMin(S) == CHOOSE x \in S : \A y \in S : x <= y

SetMax(S) == CHOOSE x \in S : \A y \in S : x >= y

(***************************************************************************)
(* re.search: the leftmost match, or None.  A match is reported with the   *)
(* offsets Python's match object gives: start(), end(), end(2), group(1).   *)
(***************************************************************************)
NoMatch == [found |-> FALSE, start |-> 0, end |-> 0, end2 |-> 0, g1 |-> 0]

\* r'(<begin marker>.*?<end marker>)' with re.DOTALL: the first begin marker
\* that has an end marker after it, up to the nearest such end marker.
SearchSection(text, b, e) ==
    LET B == {i \in 1..Len(text) : IsLit(text[i], b)}
        E == {j \in 1..Len(text) : IsLit(text[j], e) /\ B # {} /\ j > SetMin(B)}
    IN  IF B = {} \/ E = {} THEN NoMatch
        ELSE [found |-> TRUE,
              start |-> Off(text, SetMin(B)),
              end   |-> Off(text, SetMin(E) + 1),
              end2  |-> 0,
              g1    |-> 0]

\* The index of the ');' that closes the list opened by piece k: [^)]+ takes
\* every character up to the first ')', at least one, and ');' must follow.
ListCloseOf(text, k) ==
    LET M == {m \in (k + 1)..Len(text) : HasRParen(text[m])}
    IN  IF M = {} THEN 0
        ELSE IF SetMin(M) > k + 1 /\ IsLit(text[SetMin(M)], "ListClose")
             THEN SetMin(M) ELSE 0

\* The pieces k at which '<open>(' can match after an id and tag at i, i+1:
\* [^}]+ covers at least one character and no '}' between the tag and k.
ListOpens(text, i, open) ==
    {k \in (i + 3)..Len(text) :
        /\ IsLit(text[k], open)
        /\ \A x \in (i + 2)..(k - 1) : ~HasRBrace(text[x])
        /\ ListCloseOf(text, k) # 0}

\* The pieces at which a match of the whole list pattern can start.
ListStarts(text, tag, open) ==
    {i \in 1..(Len(text) - 1) :
        /\ IsLit(text[i], "Id")
        /\ IsLit(text[i + 1], tag)
        /\ ListOpens(text, i, open) # {}}

\* The list pattern taken at its last match instead of its first.
SearchListLast(text, tag, open) ==
    LET S == ListStarts(text, tag, open)
    IN  IF S = {} THEN NoMatch
        ELSE LET i == SetMax(S)
                 k == SetMax(ListOpens(text, i, open))
                 m == ListCloseOf(text, k)
             IN  [found |-> TRUE,
                  start |-> Off(text, i),
                  end   |-> Off(text, m + 1),
                  end2  |-> Off(text, m),
                  g1    |-> text[i].ref]

\* r'([A-F0-9]{24}) /\* <label> \*/ = \{[^}]+<field> = \(([^)]+)\);'
\* Leftmost start; the greedy [^}]+ settles on the last field it can reach.
SearchList(text, tag, open) ==
    LET S == ListStarts(text, tag, open)
    IN  IF S = {} THEN NoMatch
        ELSE LET i == SetMin(S)
                 k == SetMax(ListOpens(text, i, open))
                 m == ListCloseOf(text, k)
             IN  [found |-> TRUE,
                  start |-> Off(text, i),
                  end   |-> Off(text, m + 1),
                  end2  |-> Off(text, m),
                  g1    |-> text[i].ref]

file_ref_section_match(text) == SearchSection(text, "BeginFR", "EndFR")

models_group_match(text) == SearchList(text, "ModelsTag", "ChildrenOpen")

sources_build_phase_match(text) == SearchList(text, "SourcesTag", "FilesOpen")

build_file_section_match(text) == SearchSection(text, "BeginBF", "EndBF")

\* match.end() - len('/* End PBXFileReference section */\n')
file_ref_insert_pos(m) == m.end - (Width("EndFR", "") + Width("NL", ""))

\* models_group_match.end(2)
children_end_pos(m) == m.end2

\* sources_build_phase_match.end(2)
files_end_pos(m) == m.end2

\* match.end() - len('/* End PBXBuildFile section */\n')
build_file_insert_pos(m) == m.end - (Width("EndBF", "") + Width("NL", ""))

(***************************************************************************)
(* The rendered fragments, one per entry of files_to_add, in list order.   *)
(***************************************************************************)
new_file_refs(files, frefs, brefs) ==
    [i \in 1..Len(files) |-> Piece("FileRef", frefs[files[i]], 0, files[i])]

\* new_children rendered with the membership identifier.
new_children_by_build_ref(files, frefs, brefs) ==
    [i \in 1..Len(files) |-> Piece("Child", brefs[files[i]], 0, files[i])]

new_children(files, frefs, brefs) ==
    [i \in 1..Len(files) |-> Piece("Child", frefs[files[i]], 0, files[i])]

new_build_files(files, frefs, brefs) ==
    [i \in 1..Len(files) |-> Piece("BuildPhaseFile", 0, brefs[files[i]], files[i])]

\* new_pbx_build_files built by prepending each record.
new_pbx_build_files_reversed(files, frefs, brefs) ==
    [i \in 1..Len(files) |->
        Piece("BuildFile", frefs[files[Len(files) + 1 - i]],
              brefs[files[Len(files) + 1 - i]], files[Len(files) + 1 - i])]

new_pbx_build_files(files, frefs, brefs) ==
    [i \in 1..Len(files) |->
        Piece("BuildFile", frefs[files[i]], brefs[files[i]], files[i])]

\* content[:pos] + ''.join(frags) + content[pos + 1:]
InsertOverwrite(text, pos, frags) ==
    IF pos >= TextLen(text) THEN text \o frags
    ELSE LET i == SetMin({j \in 1..Len(text) : Off(text, j + 1) > pos})
             d == pos - Off(text, i)
             p == text[i]
             l == IF d = 0 THEN <<>> ELSE <<[p EXCEPT !.hi = p.lo + d]>>
             r == IF p.lo + d + 1 >= p.hi THEN <<>>
                  ELSE <<[p EXCEPT !.lo = p.lo + d + 1]>>
         IN  SubSeq(text, 1, i - 1) \o l \o frags \o r
             \o SubSeq(text, i + 1, Len(text))

\* content[:pos] + ''.join(frags) + content[pos:], for 0 <= pos.  (Every
\* offset the script computes is at least the length of a begin marker.)
Insert(text, pos, frags) ==
    IF frags = <<>> THEN text
    ELSE IF pos >= TextLen(text) THEN text \o frags
    ELSE LET i == SetMin({j \in 1..Len(text) : Off(text, j + 1) > pos})
             d == pos - Off(text, i)
             p == text[i]
         IN  IF d = 0
             THEN SubSeq(text, 1, i - 1) \o frags \o SubSeq(text, i, Len(text))
             ELSE SubSeq(text, 1, i - 1)
                  \o <<[p EXCEPT !.hi = p.lo + d]>>
                  \o frags
                  \o <<[p EXCEPT !.lo = p.lo + d]>>
                  \o SubSeq(text, i + 1, Len(text))

\* uuid.uuid4().hex.upper()[:24] drawn from a source that never repeats.
generate_uuid(used) == Len(used) + 1

(***************************************************************************)
(* The descriptors a run may find on disk: a header followed by the four   *)
(* constructs, each in one of several shapes.                              *)
(***************************************************************************)
BuildFileSection(v) ==
    CASE v = "missing"  -> <<>>
      [] v = "touching" -> <<Lit("BeginBF"), Lit("EndBF"), Lit("NL")>>
      [] v = "one"      -> <<Lit("BeginBF"), Lit("NL"), Lit("OldBuildFile"), Lit("NL"),
                             Lit("EndBF"), Lit("NL")>>

FileRefSection(v) ==
    CASE v = "missing"  -> <<Lit("BeginFR"), Lit("NL")>>
      [] v = "touching" -> <<Lit("BeginFR"), Lit("EndFR"), Lit("NL")>>
      [] v = "empty"    -> <<Lit("BeginFR"), Lit("NL"), Lit("EndFR"), Lit("NL")>>
      [] v = "one"      -> <<Lit("BeginFR"), Lit("NL"), Lit("OldFileRef"), Lit("NL"),
                             Lit("EndFR"), Lit("NL")>>
      [] v = "two"      -> <<Lit("BeginFR"), Lit("NL"), Lit("OldFileRef"), Lit("NL"),
                             Lit("EndFR"), Lit("NL"),
                             Lit("BeginFR"), Lit("NL"), Lit("EndFR"), Lit("NL")>>

ModelsGroup(id) ==
    <<Lit("Indent"), IdPiece(id), Lit("ModelsTag"), Lit("GroupBody"),
      Lit("ChildrenOpen"), Lit("OldChild"), Lit("ListClose"), Lit("GroupTail")>>

Groups(v) ==
    CASE v = "missing"    -> <<>>
      [] v = "nochildren" -> <<Lit("Indent"), IdPiece(-1), Lit("ModelsTag"),
                               Lit("GroupBody"), Lit("ChildrenOpen"),
                               Lit("ListClose"), Lit("GroupTail")>>
      [] v = "one"        -> ModelsGroup(-1)
      [] v = "two"        -> ModelsGroup(-1) \o ModelsGroup(-2)

SourcesPhase(id) ==
    <<Lit("Indent"), IdPiece(id), Lit("SourcesTag"), Lit("PhaseBody"),
      Lit("FilesOpen"), Lit("OldPhaseFile"), Lit("ListClose"), Lit("PhaseTail")>>

Phases(v) ==
    CASE v = "missing" -> <<>>
      [] v = "one"     -> SourcesPhase(-3)
      [] v = "two"     -> SourcesPhase(-3) \o SourcesPhase(-4)

Descriptors ==
    {<<Lit("Header")>> \o BuildFileSection(b) \o FileRefSection(f)
                       \o Groups(g) \o Phases(s) :
        b \in {"missing", "touching", "one"},
        f \in {"missing", "touching", "empty", "one", "two"},
        g \in {"missing", "nochildren", "one", "two"},
        s \in {"missing", "one", "two"}}

FileLists == UNION {[1..n -> FileNames] : n \in 0..MaxFiles}

EmptyDict == [fn \in {} |-> 0]

Init ==
    /\ pc = "START"
    /\ disk \in Descriptors
    /\ orig = disk
    /\ content = <<>>
    /\ files_to_add \in FileLists
    /\ gen_i = 1
    /\ uuids = <<>>
    /\ file_refs = EmptyDict
    /\ build_refs = EmptyDict
    /\ hist = <<>>
    /\ result = "none"
    /\ stdout = <<>>
    /\ exit_status = -1

(***************************************************************************)
(* Where the run stands: the condition under which each statement is next. *)
(***************************************************************************)
CanLoad == pc = "START"

CanGenerateIds == pc = "LOADED" /\ gen_i <= Len(files_to_add)

CanInsertFileRefs == pc = "LOADED" /\ gen_i > Len(files_to_add)

CanInsertGroup == pc = "REFS_INSERTED"

CanInsertBuildPhase == pc = "GROUP_INSERTED"

CanInsertBuildFiles == pc = "BUILDPHASE_INSERTED"

CanWriteBack == pc = "BUILDFILES_INSERTED"

CanExit == pc \in {"PERSISTED", "ABORTED"} /\ exit_status = -1

\* Some statement of the run is still to be executed.
CanStep ==
    \/ CanLoad
    \/ CanGenerateIds
    \/ CanInsertFileRefs
    \/ CanInsertGroup
    \/ CanInsertBuildPhase
    \/ CanInsertBuildFiles
    \/ CanWriteBack
    \/ CanExit

\* with open(pbxproj_path, 'r') as f: content = f.read()
Load ==
    /\ CanLoad
    /\ pc' = "LOADED"
    /\ content' = disk
    /\ UNCHANGED <<disk, orig, files_to_add, gen_i, uuids, file_refs, build_refs,
                   hist, result, stdout, exit_status>>

\* One iteration of: for filename in files_to_add: file_refs[filename] =
\* generate_uuid(); build_refs[filename] = generate_uuid()
GenerateIds ==
    /\ CanGenerateIds
    /\ LET fn == files_to_add[gen_i]
           a  == generate_uuid(uuids)
           b  == generate_uuid(Append(uuids, a))
       IN  /\ file_refs' = (fn :> a) @@ file_refs
           /\ build_refs' = (fn :> b) @@ build_refs
           /\ uuids' = Append(Append(uuids, a), b)
    /\ gen_i' = gen_i + 1
    /\ UNCHANGED <<pc, disk, orig, content, files_to_add, hist, result, stdout,
                   exit_status>>

\* A locate step that found nothing: print the error, return False.
Abort(msg) ==
    /\ pc' = "ABORTED"
    /\ result' = "False"
    /\ stdout' = Append(stdout, msg)
    /\ UNCHANGED <<disk, orig, content, files_to_add, gen_i, uuids, file_refs,
                   build_refs, hist, exit_status>>

\* A locate step that matched in `searched` at offset pos: splice the fragments
\* into content and go on.  hist keeps, per insertion, the text before it, the
\* text the pattern was matched against, the offset, the fragments and the
\* text after it.
Splice(next, searched, pos, frags) ==
    /\ pc' = next
    /\ content' = Insert(content, pos, frags)
    /\ hist' = Append(hist, [before |-> content, searched |-> searched,
                             pos |-> pos, frags |-> frags, after |-> content'])
    /\ UNCHANGED <<disk, orig, files_to_add, gen_i, uuids, file_refs, build_refs,
                   result, stdout, exit_status>>

InsertFileRefs ==
    /\ CanInsertFileRefs
    /\ LET m == file_ref_section_match(content)
       IN  IF ~m.found
           THEN Abort("Error: Could not find PBXFileReference section")
           ELSE Splice("REFS_INSERTED", content, file_ref_insert_pos(m),
                       new_file_refs(files_to_add, file_refs, build_refs))

\* InsertGroup with the group matched in the text as it was loaded.
InsertGroupStale ==
    /\ CanInsertGroup
    /\ LET m == models_group_match(orig)
       IN  IF ~m.found
           THEN Abort("Error: Could not find Models group")
           ELSE Splice("GROUP_INSERTED", orig, children_end_pos(m),
                       new_children(files_to_add, file_refs, build_refs))

InsertGroup ==
    /\ CanInsertGroup
    /\ LET m == models_group_match(content)
       IN  IF ~m.found
           THEN Abort("Error: Could not find Models group")
           ELSE Splice("GROUP_INSERTED", content, children_end_pos(m),
                       new_children(files_to_add, file_refs, build_refs))

\* InsertBuildPhase that saves the file after its insertion.
InsertBuildPhaseFlush ==
    /\ CanInsertBuildPhase
    /\ LET m == sources_build_phase_match(content)
       IN  IF ~m.found
           THEN Abort("Error: Could not find Sources build phase")
           ELSE /\ pc' = "BUILDPHASE_INSERTED"
                /\ content' = Insert(content, files_end_pos(m),
                                     new_build_files(files_to_add, file_refs, build_refs))
                /\ disk' = content'
                /\ hist' = Append(hist, [before |-> content, searched |-> content,
                                         pos |-> files_end_pos(m),
                                         frags |-> new_build_files(files_to_add,
                                                                   file_refs, build_refs),
                                         after |-> content'])
                /\ UNCHANGED <<orig, files_to_add, gen_i, uuids, file_refs, build_refs,
                               result, stdout, exit_status>>

InsertBuildPhase ==
    /\ CanInsertBuildPhase
    /\ LET m == sources_build_phase_match(content)
       IN  IF ~m.found
           THEN Abort("Error: Could not find Sources build phase")
           ELSE Splice("BUILDPHASE_INSERTED", content, files_end_pos(m),
                       new_build_files(files_to_add, file_refs, build_refs))

InsertBuildFiles ==
    /\ CanInsertBuildFiles
    /\ LET m == build_file_section_match(content)
       IN  IF ~m.found
           THEN Abort("Error: Could not find PBXBuildFile section")
           ELSE Splice("BUILDFILES_INSERTED", content, build_file_insert_pos(m),
                       new_pbx_build_files(files_to_add, file_refs, build_refs))

\* with open(pbxproj_path, 'w') as f: f.write(content); return True
WriteBack ==
    /\ CanWriteBack
    /\ pc' = "PERSISTED"
    /\ disk' = content
    /\ result' = "True"
    /\ stdout' = Append(stdout, "Successfully added files to Xcode project")
    /\ UNCHANGED <<orig, content, files_to_add, gen_i, uuids, file_refs, build_refs,
                   hist, exit_status>>

\* __main__ that exits 0 whatever the function returned.
ExitZero ==
    /\ CanExit
    /\ exit_status' = 0
    /\ stdout' = Append(stdout, "Files added successfully!")
    /\ UNCHANGED <<pc, disk, orig, content, files_to_add, gen_i, uuids, file_refs,
                   build_refs, hist, result>>

\* __main__: sys.exit(0) if add_files_to_pbxproj(...) else sys.exit(1)
Exit ==
    /\ CanExit
    /\ exit_status' = IF result = "True" THEN 0 ELSE 1
    /\ stdout' = Append(stdout, IF result = "True" THEN "Files added successfully!"
                                                     ELSE "Failed to add files")
    /\ UNCHANGED <<pc, disk, orig, content, files_to_add, gen_i, uuids, file_refs,
                   build_refs, hist, result>>

Next ==
    \/ Load
    \/ GenerateIds
    \/ InsertFileRefs
    \/ InsertGroup
    \/ InsertBuildPhase
    \/ InsertBuildFiles
    \/ WriteBack
    \/ Exit

Spec == Init /\ [][Next]_vars

(***************************************************************************)
(* Vocabulary of the properties.                                           *)
(***************************************************************************)
N == Len(files_to_add)

NewKinds == {"FileRef", "Child", "BuildPhaseFile", "BuildFile"}

Markers == {"BeginFR", "EndFR", "BeginBF", "EndBF"}

Idxs(text, kind) == {i \in 1..Len(text) : text[i].k = kind}

OfKind(text, kind) == SelectSeq(text, LAMBDA p : p.k = kind)

Range(f) == {f[i] : i \in DOMAIN f}

RECURSIVE Merge(_)
\* A text with the two halves of a split literal joined again.
Merge(t) ==
    IF Len(t) < 2 THEN t
    ELSE LET a == t[1]
             b == t[2]
         IN  IF a.k = b.k /\ a.ref = b.ref /\ a.fn = b.fn /\ a.hi = b.lo
             THEN Merge(<<[a EXCEPT !.hi = b.hi]>> \o SubSeq(t, 3, Len(t)))
             ELSE <<a>> \o Merge(Tail(t))

\* The text with the given pieces deleted.
Unsplice(text, pieces) == Merge(SelectSeq(text, LAMBDA p : p \notin pieces))

\* The offset the k-th locate step computes in text t.
LocatePos(k, t) ==
    CASE k = 1 -> file_ref_insert_pos(file_ref_section_match(t))
      [] k = 2 -> children_end_pos(models_group_match(t))
      [] k = 3 -> files_end_pos(sources_build_phase_match(t))
      [] k = 4 -> build_file_insert_pos(build_file_section_match(t))

\* The text the k-th insertion starts from.
TextBefore(k) == IF k = 1 THEN orig ELSE hist[k - 1].after

\* The total length of the four records rendered for one filename.
RecordsLen(fn) ==
    Width("FileRef", fn) + Width("Child", fn) + Width("BuildPhaseFile", fn)
    + Width("BuildFile", fn)

RECURSIVE SumRecordsLen(_)
SumRecordsLen(files) ==
    IF files = <<>> THEN 0 ELSE RecordsLen(Head(files)) + SumRecordsLen(Tail(files))

\* C1: when a locate step fails the file on disk is the file that was read,
\* whatever was already inserted into the in-memory copy.
CL1_FailureAtomicity == pc = "ABORTED" => disk = orig

CL1_Witness ==
    /\ pc = "ABORTED"
    /\ Len(hist) = 3
    /\ N = 2
    /\ content # orig
    /\ disk = orig

\* C2: a run that located all four regions writes exactly N records of each of
\* the four kinds, and the i-th records agree on their identifiers: group child
\* and build-file fileRef carry the file reference's identifier, the build-phase
\* entry carries the build-file declaration's identifier.
CL2_RecordsCrossReference ==
    pc = "PERSISTED" =>
        LET R == OfKind(disk, "FileRef")
            C == OfKind(disk, "Child")
            P == OfKind(disk, "BuildPhaseFile")
            D == OfKind(disk, "BuildFile")
        IN  /\ Len(R) = N /\ Len(C) = N /\ Len(P) = N /\ Len(D) = N
            /\ \A i \in 1..N :
                /\ Whole(R[i]) /\ Whole(C[i]) /\ Whole(P[i]) /\ Whole(D[i])
                /\ R[i].fn = files_to_add[i] /\ C[i].fn = files_to_add[i]
                /\ P[i].fn = files_to_add[i] /\ D[i].fn = files_to_add[i]
                /\ C[i].ref = R[i].ref
                /\ D[i].ref = R[i].ref
                /\ P[i].bld = D[i].bld

CL2_Witness ==
    /\ pc = "PERSISTED"
    /\ N = 2
    /\ files_to_add[1] # files_to_add[2]
    /\ Len(OfKind(disk, "Child")) = 2

\* Piece i of the text lies after a whole `open` with no `close` in between and
\* before a whole `close` with no `open` in between.
Enclosed(text, i, open, close) ==
    /\ \E b \in 1..(i - 1) :
        /\ IsLit(text[b], open)
        /\ \A x \in (b + 1)..(i - 1) : text[x].k # close
    /\ \E e \in (i + 1)..Len(text) :
        /\ IsLit(text[e], close)
        /\ \A x \in (i + 1)..(e - 1) : text[x].k # open

\* C3: after a successful run the text outside the inserted records is the
\* original text, every new record lies inside its section's markers or its
\* list's parentheses, and every section marker is intact.
CL3_RegionIsolation ==
    pc = "PERSISTED" =>
        /\ Unsplice(disk, {p \in Range(disk) : p.k \in NewKinds}) = orig
        /\ \A i \in Idxs(disk, "FileRef") : Enclosed(disk, i, "BeginFR", "EndFR")
        /\ \A i \in Idxs(disk, "BuildFile") : Enclosed(disk, i, "BeginBF", "EndBF")
        /\ \A i \in Idxs(disk, "Child") : Enclosed(disk, i, "ChildrenOpen", "ListClose")
        /\ \A i \in Idxs(disk, "BuildPhaseFile") :
               Enclosed(disk, i, "FilesOpen", "ListClose")
        /\ \A i \in 1..Len(disk) : disk[i].k \in Markers => Whole(disk[i])

\* The k-th insertion put its fragments immediately before the section's end
\* marker: what preceded the marker still precedes the first fragment and the
\* marker follows the last one.
BeforeEndMarker(k, e) ==
    LET h == hist[k]
        j == SetMin(Idxs(h.before, e))
        n == Len(h.frags)
    IN  /\ Len(h.after) = Len(h.before) + n
        /\ SubSeq(h.after, 1, j - 1) = SubSeq(h.before, 1, j - 1)
        /\ SubSeq(h.after, j, j + n - 1) = h.frags
        /\ IsLit(h.after[j + n], e)

\* C4: in the PBXFileReference and PBXBuildFile sections the new records are
\* inserted immediately before the end marker.
CL4_InsertBeforeEndMarker ==
    /\ (Len(hist) >= 1 /\ N >= 1) => BeforeEndMarker(1, "EndFR")
    /\ (Len(hist) >= 4 /\ N >= 1) => BeforeEndMarker(4, "EndBF")

\* C5: in each of the four regions the new records form one contiguous block
\* in the order of files_to_add.
CL5_Ordering ==
    pc = "PERSISTED" =>
        \A kind \in NewKinds :
            LET I == Idxs(disk, kind)
            IN  /\ Cardinality(I) = N
                /\ I # {} => /\ I = SetMin(I)..SetMax(I)
                             /\ \A i \in 1..N :
                                    disk[SetMin(I) + i - 1].fn = files_to_add[i]

CL5_Witness ==
    /\ pc = "PERSISTED"
    /\ files_to_add = <<"ActivityMigration.swift", "Activity.swift">>
    /\ Idxs(disk, "OldFileRef") # {}
    /\ Idxs(disk, "OldBuildFile") # {}

\* C6: no identifier is generated twice, an entry's two identifiers differ, and
\* no two entries of files_to_add have the same identifiers written into their
\* records.
CL6_IdentifiersUnique ==
    /\ \A i, j \in 1..Len(uuids) : i # j => uuids[i] # uuids[j]
    /\ \A fn \in DOMAIN file_refs : file_refs[fn] # build_refs[fn]
    /\ \A k \in 1..Len(hist) :
           \A i, j \in 1..Len(hist[k].frags) :
               i # j => \/ hist[k].frags[i].ref # hist[k].frags[j].ref
                        \/ hist[k].frags[i].bld # hist[k].frags[j].bld

Order ==
    <<"START", "LOADED", "REFS_INSERTED", "GROUP_INSERTED", "BUILDPHASE_INSERTED",
      "BUILDFILES_INSERTED", "PERSISTED">>

\* The number of insertions done in each state of the run.
Done(state) ==
    CASE state = "REFS_INSERTED" -> 1
      [] state = "GROUP_INSERTED" -> 2
      [] state = "BUILDPHASE_INSERTED" -> 3
      [] state \in {"BUILDFILES_INSERTED", "PERSISTED"} -> 4
      [] OTHER -> 0

\* One step of the run's state machine.  A step that stays in its state is an
\* iteration of the identifier loop or the exit of the process, so that no
\* state is stayed in for ever.
StepOK ==
    \/ /\ pc' = pc
       /\ hist' = hist
       /\ disk' = disk
       /\ \/ pc = "LOADED" /\ gen_i <= N /\ gen_i' = gen_i + 1
          \/ pc \in {"PERSISTED", "ABORTED"} /\ exit_status = -1 /\ exit_status' # -1
    \/ /\ \E i \in 1..(Len(Order) - 1) : pc = Order[i] /\ pc' = Order[i + 1]
       /\ Len(hist') = Done(pc')
       /\ disk' # disk => pc' = "PERSISTED"
    \/ /\ pc \in {"LOADED", "REFS_INSERTED", "GROUP_INSERTED", "BUILDPHASE_INSERTED"}
       /\ pc' = "ABORTED"
       /\ hist' = hist
       /\ disk' = disk

\* The process has exited from one of the two terminal states.
Finished ==
    \/ pc = "PERSISTED" /\ exit_status = 0
    \/ pc = "ABORTED" /\ exit_status = 1

ExitOK ==
    /\ exit_status \in {-1, 0, 1}
    /\ exit_status = 0 => pc = "PERSISTED"
    /\ exit_status = 1 => pc = "ABORTED"
    /\ pc = "PERSISTED" => Len(hist) = 4 /\ disk = content
    /\ pc = "ABORTED" => Len(hist) < 4 /\ disk = orig
    /\ Finished \/ CanStep

CL8_LocateOnMutatedText ==
    \A k \in 1..Len(hist) :
        /\ hist[k].before = TextBefore(k)
        /\ hist[k].searched = TextBefore(k)
        /\ hist[k].pos = LocatePos(k, TextBefore(k))

CL8_Witness ==
    /\ Len(hist) = 4
    /\ N >= 1
    /\ hist[2].pos # LocatePos(2, orig)
    /\ hist[3].pos # LocatePos(3, orig)

\* C9: each insertion lengthens the text by the length of its fragments and
\* deleting the fragments gives back the text before it; the file written is
\* longer than the file read by the length of all 4N records.
CL9_LengthInvariant ==
    /\ \A k \in 1..Len(hist) :
        /\ TextLen(hist[k].after) = TextLen(hist[k].before) + TextLen(hist[k].frags)
        /\ Unsplice(hist[k].after, Range(hist[k].frags)) = hist[k].before
    /\ pc = "PERSISTED" =>
           TextLen(disk) = TextLen(orig) + SumRecordsLen(files_to_add)

CL9_Witness ==
    /\ pc = "PERSISTED"
    /\ N = 2
    /\ \E i \in 1..Len(disk) : ~Whole(disk[i])

\* The 8 pieces of the last record labelled `tag`.
LastRecord(text, tag) ==
    SubSeq(text, SetMax(Idxs(text, tag)) - 2, SetMax(Idxs(text, tag)) + 5)

\* C10: with two Models groups or two Sources phases the locate step succeeds,
\* the new entries go into the first one only and the second is unchanged.
CL10_FirstMatchOnly ==
    /\ (pc = "ABORTED" /\ Cardinality(Idxs(orig, "ModelsTag")) = 2) => Len(hist) # 1
    /\ (pc = "ABORTED" /\ Cardinality(Idxs(orig, "SourcesTag")) = 2) => Len(hist) # 2
    /\ (pc = "PERSISTED" /\ Cardinality(Idxs(orig, "ModelsTag")) = 2) =>
        /\ \A i \in Idxs(disk, "Child") : i < SetMax(Idxs(disk, "ModelsTag"))
        /\ Cardinality(Idxs(disk, "Child")) = N
        /\ LastRecord(disk, "ModelsTag") = LastRecord(orig, "ModelsTag")
    /\ (pc = "PERSISTED" /\ Cardinality(Idxs(orig, "SourcesTag")) = 2) =>
        /\ \A i \in Idxs(disk, "BuildPhaseFile") : i < SetMax(Idxs(disk, "SourcesTag"))
        /\ Cardinality(Idxs(disk, "BuildPhaseFile")) = N
        /\ LastRecord(disk, "SourcesTag") = LastRecord(orig, "SourcesTag")

CL10_Witness ==
    /\ pc = "PERSISTED"
    /\ N = 2
    /\ Cardinality(Idxs(orig, "ModelsTag")) = 2
    /\ Cardinality(Idxs(orig, "SourcesTag")) = 2

====
